---- MODULE Spec2Model ----
(***************************************************************************)
(* Model of the reactive forwarding core of the network_awareness app:     *)
(*   find_circle.py          - enumeration of the simple cycles of a graph *)
(*   shortest_forwarding.py  - ShortestForwarding: switch registry,        *)
(*                             packet-in dispatch, install_flow            *)
(***************************************************************************)
EXTENDS Integers, Sequences, FiniteSets, TLC

\* ------------------------------------------------------------------ bounds
NumSw == 4          \* switches (graph vertices) are labelled 1..NumSw
MaxPacketIn == 2    \* IPv4 packet-ins handled in one run of the dispatcher
MaxCat == 2         \* cycles in a catalogue that is not the full enumeration
MaxOther == 1       \* other IPv4 packet-ins counted while one is handled
NumDp == 2          \* dpids whose sessions are told apart
NumSessions == 2    \* sessions (connections) one dpid goes through

Sw == 1..NumSw

VARIABLES
  graph,         \* awareness.graph as adjacency: vertex -> set of neighbours
  link_to_port,  \* awareness.link_to_port: <<src,dst>> -> <<src_port,dst_port>>
  cir_list,      \* awareness.cir_list: sequence of cycles
  access_table,  \* awareness.access_table: <<dpid,port>> -> ip
  datapaths,     \* self.datapaths: dpid -> session
  gid,           \* self.gid
  gid_log,       \* per IPv4 packet-in handled: the gid it ran with and the
                 \* group ids its messages name
  last_main,     \* the dpids whose latest state-change event was
                 \* MAIN_DISPATCHER
  reported,      \* <<dpid, session>> -> the state that session reported
                 \* last (kept where sessions of one dpid are told apart)
  weight,        \* self.weight
  sent,          \* control messages emitted by the handler that ran last
  call,          \* the event / call that ran last, with its inputs
  ret            \* what it returned (or how it ended)

vars == <<graph, link_to_port, cir_list, access_table, datapaths, gid,
          gid_log, last_main, reported, weight, sent, call, ret>>

\* ----------------------------------------------------------- small helpers
Min(S) == CHOOSE x \in S : \A y \in S : x <= y

\* Python iterates a set of small ints in ascending order.
RECURSIVE Iter(_)
Iter(S) == IF S = {} THEN <<>> ELSE <<Min(S)>> \o Iter(S \ {Min(S)})

\* x in lst / lst.index(x) for a Python list held as a sequence
InList(x, lst) == \E k \in 1..Len(lst) : lst[k] = x
IndexOf(x, lst) == Min({k \in 1..Len(lst) : lst[k] = x}) - 1

\* every sequence of n distinct elements of S
RECURSIVE SeqsOver(_, _)
SeqsOver(S, n) ==
  IF n = 0 THEN {<<>>}
  ELSE UNION {{Append(q, x) : x \in S \ {q[k] : k \in 1..Len(q)}} :
              q \in SeqsOver(S, n - 1)}

\* ------------------------------------------------------- find_circle.py
\* fault variant of closes: the reflection tie is not broken
closes_no_tie_break(G, path, i) ==
  ~InList(i, path) /\ (path[1] \in G[i])

\* line 14: i closes path into a cycle; i > path[1] breaks the reflection tie
closes(G, path, i) ==
  (i > path[2]) /\ ~InList(i, path) /\ (path[1] \in G[i])

\* line 21: i may extend path (no vertex below the start)
extends(path, i) == (i > path[1]) /\ ~InList(i, path)

\* for i in G[last]: the closing loop of find_cir_starts_with (l == length-1)
RECURSIVE find_cir_close(_, _, _, _)
find_cir_close(G, path, order, acc) ==
  IF order = <<>> THEN acc
  ELSE LET i == Head(order)
           hit == closes(G, path, i)
           nxt == IF hit
                  THEN [cnt |-> acc.cnt + 1,
                        cir_list |-> Append(acc.cir_list, Append(path, i))]
                  ELSE acc
       IN find_cir_close(G, path, Tail(order), nxt)

RECURSIVE find_cir_starts_with(_, _, _, _)
RECURSIVE find_cir_extend(_, _, _, _, _)
\* for i in G[last]: the extending loop of find_cir_starts_with
find_cir_extend(G, length, path, order, acc) ==
  IF order = <<>> THEN acc
  ELSE LET i == Head(order)
           hit == extends(path, i)
           sub == find_cir_starts_with(G, length, Append(path, i), acc.cir_list)
           nxt == IF hit
                  THEN [cnt |-> acc.cnt + sub.cnt, cir_list |-> sub.cir_list]
                  ELSE acc
       IN find_cir_extend(G, length, path, Tail(order), nxt)

find_cir_starts_with(G, length, path, cl) ==
  LET l == Len(path)
      last == path[l]
      start == [cnt |-> 0, cir_list |-> cl]
  IN IF l = length - 1
     THEN find_cir_close(G, path, Iter(G[last]), start)
     ELSE find_cir_extend(G, length, path, Iter(G[last]), start)

\* for i in range(1, n-length+2)
RECURSIVE find_cir_of_length_from(_, _, _, _, _)
find_cir_of_length_from(G, n, length, i, acc) ==
  IF i >= n - length + 2 THEN acc
  ELSE LET sub == find_cir_starts_with(G, length, <<i>>, acc.cir_list)
       IN find_cir_of_length_from(G, n, length, i + 1,
            [cnt |-> acc.cnt + sub.cnt, cir_list |-> sub.cir_list])

find_cir_of_length(G, n, length, cl) ==
  find_cir_of_length_from(G, n, length, 1, [cnt |-> 0, cir_list |-> cl])

\* for i in range(3, n+1)
RECURSIVE find_all_cirs_from(_, _, _, _)
find_all_cirs_from(G, n, i, acc) ==
  IF i >= n + 1 THEN acc
  ELSE LET sub == find_cir_of_length(G, n, i, acc.cir_list)
       IN find_all_cirs_from(G, n, i + 1,
            [cnt |-> acc.cnt + sub.cnt, cir_list |-> sub.cir_list])

\* fault variant of cir_list_clear: the list is not cleared
cir_list_kept(cl) == cl

\* line 33: cir_list.clear()
cir_list_clear(cl) == <<>>

find_all_cirs(G, n, cl) ==
  find_all_cirs_from(G, n, 3, [cnt |-> 0, cir_list |-> cir_list_clear(cl)])

\* ------------------------------------------------------------ topologies
Edges == {e \in SUBSET Sw : Cardinality(e) = 2}
AdjOf(E) == [v \in Sw |-> {u \in Sw : {u, v} \in E}]
Graphs == {AdjOf(E) : E \in SUBSET Edges}

\* ------------------------------------------------- Python values and lists
\* WEIGHT_MODEL = {'hop': 'weight', 'delay': "delay", "bw": "bw"}
WEIGHT_MODEL(k) ==
  CASE k = "hop" -> "weight" [] k = "delay" -> "delay" [] k = "bw" -> "bw"
CONF_weight == "hop"

None == <<>>                 \* Python None where a tuple is expected
NoneInt == -1000            \* Python None where a number is expected
Unbound == 0                 \* a local variable that was never assigned

\* lst[k] for a 0-based Python index, negative indices counting from the end
PyHas(lst, k) == (k < Len(lst)) /\ (k >= 0 - Len(lst))
PyAt(lst, k) == IF k < 0 THEN lst[Len(lst) + k + 1] ELSE lst[k + 1]

\* ---------------------------------------------------- OpenFlow constants
\* 0xfffffff8, 0xfffffffd, 0xfffffffe and 0xffffffff, read as signed 32-bit
\* numbers
OFPP_IN_PORT == -8
OFPP_CONTROLLER == -3
OFPP_LOCAL == -2
OFP_NO_BUFFER == -1

\* ------------------------------------------------------ control messages
BlankMsg == [type |-> "", dp |-> 0, eth_type |-> 0, ipv4_src |-> 0,
             ipv4_dst |-> 0, in_port |-> 0, out_port |-> 0, group_id |-> 0,
             buckets |-> <<>>, buffer_id |-> 0, data |-> 0]

\* the state install_flow carries from statement to statement: the messages
\* sent so far, its locals that live across blocks, and the exception (if
\* any) that ended it
NoErr == ""
Raise(st, e) == IF st.err = NoErr THEN [st EXCEPT !.err = e] ELSE st
Emit(st, m) == IF st.err = NoErr THEN [st EXCEPT !.msgs = Append(@, m)] ELSE st

\* send_flow_mod: OFPFlowMod, priority 1, no timeouts; in_port 0 stands for
\* a match without in_port, group_id 0 for an OFPActionOutput(dst_port)
FlowModMsg(dp, info, src_port, dst_port, group_id) ==
  [BlankMsg EXCEPT !.type = "FlowMod", !.dp = dp, !.eth_type = info[1],
                   !.ipv4_src = info[2], !.ipv4_dst = info[3],
                   !.in_port = src_port,
                   !.out_port = IF group_id = 0 THEN dst_port ELSE 0,
                   !.group_id = group_id]

\* self.gid is an attribute the handler reads afresh wherever a send names
\* it (lines 381-382, 441-442, 506-515, 579-592, 603-604, 614-623, 672-673,
\* 714-715). The blocks below write a.gid for it, the counter as the
\* handling's own increment (line 815) left it; Raised is what increments on
\* behalf of other packet-ins have added by the time of a send: bumps lists,
\* for each of them, the number of messages the handling had sent by then.
\* It is 0 whenever a handling runs without another one in between.
Raised(st) ==
  2 * Cardinality({k \in 1..Len(st.bumps) : st.bumps[k] <= Len(st.msgs)})

send_flow_mod(st, dp, info, src_port, dst_port, group_id) ==
  Emit(st, FlowModMsg(dp, info, src_port, dst_port,
                      IF group_id = 0 THEN 0 ELSE group_id + Raised(st)))

\* send_group_mod: OFPGroupMod(OFPGC_ADD, OFPGT_FF, group_id, two buckets)
\* fault variant: the second bucket watches watch_port_2 as passed, without
\* the default of line 303
GroupModMsg_raw_watch(dp, group_id_1, out_port_1, out_port_2, watch_port_2) ==
  [BlankMsg EXCEPT !.type = "GroupMod", !.dp = dp, !.group_id = group_id_1,
     !.buckets = << [watch_port |-> out_port_1, out_port |-> out_port_1],
                    [watch_port |-> watch_port_2, out_port |-> out_port_2] >>]

GroupModMsg(dp, group_id_1, out_port_1, out_port_2, watch_port_2) ==
  [BlankMsg EXCEPT !.type = "GroupMod", !.dp = dp, !.group_id = group_id_1,
     !.buckets = << [watch_port |-> out_port_1, out_port |-> out_port_1],
                    [watch_port |-> IF watch_port_2 = 0 THEN out_port_2
                                    ELSE watch_port_2,
                     out_port |-> out_port_2] >>]

send_group_mod(st, dp, group_id_1, out_port_1, out_port_2, watch_port_2) ==
  Emit(st, GroupModMsg(dp, group_id_1 + Raised(st), out_port_1, out_port_2,
                       watch_port_2))

\* _build_packet_out / send_packet_out
build_packet_out(dp, buffer_id, src_port, dst_port, data) ==
  IF buffer_id = OFP_NO_BUFFER /\ data = NoneInt THEN None
  ELSE [BlankMsg EXCEPT !.type = "PacketOut", !.dp = dp,
          !.buffer_id = buffer_id, !.in_port = src_port,
          !.out_port = dst_port,
          !.data = IF buffer_id = OFP_NO_BUFFER THEN data ELSE NoneInt]

\* get_port: the port of the access_table key whose host has ip dst_ip
get_port(dst_ip, at) ==
  IF \E k \in DOMAIN at : at[k][1] = dst_ip
  THEN (CHOOSE k \in DOMAIN at : at[k][1] = dst_ip)[2]
  ELSE NoneInt

\* get_port_pair_from_link
get_port_pair_from_link(ltp, src_dpid, dst_dpid) ==
  IF <<src_dpid, dst_dpid>> \in DOMAIN ltp THEN ltp[<<src_dpid, dst_dpid>>]
  ELSE None

\* the try/except IndexError idiom that picks the cycle neighbour of c[p]
\* away from x:   try:    if x == c[p+1]: c[p-1], -1  else: c[p+1], +1
\*                except: if y == c[0]:   c[p-1], -1  else: c[0],   +1
\* c[p-1] is outside the reach of the except clause when it raises there
away_from(c, p, x, y) ==
  IF PyHas(c, p + 1)
  THEN IF x = PyAt(c, p + 1)
       THEN [bp |-> PyAt(c, p - 1), dir |-> 0 - 1, err |-> NoErr]
       ELSE [bp |-> PyAt(c, p + 1), dir |-> 1, err |-> NoErr]
  ELSE IF y = PyAt(c, 0)
       THEN IF PyHas(c, p - 1)
            THEN [bp |-> PyAt(c, p - 1), dir |-> 0 - 1, err |-> NoErr]
            ELSE [bp |-> Unbound, dir |-> 0, err |-> "IndexError"]
       ELSE [bp |-> PyAt(c, 0), dir |-> 1, err |-> NoErr]

\* ------------------------------------------------------------ install_flow
\* a: the arguments (dps = keys of datapaths, ltp, cirs, at, path, fi, gid)
\* st: msgs, the locals path_cir, cir_dir, bp, bp_cir, cir_01, b, f, and err
P(a, k) == PyAt(a.path, k)                              \* path[k]
flow_info(a) == <<a.fi[1], a.fi[2], a.fi[3]>>           \* (eth_type, src, dst)
back_info(a) == <<a.fi[1], a.fi[3], a.fi[2]>>           \* line 337
Linked(a, x, y) == get_port_pair_from_link(a.ltp, x, y) # None
PortPair(a, x, y) == get_port_pair_from_link(a.ltp, x, y)

StartState == [msgs |-> <<>>, bumps |-> <<>>, path_cir |-> <<>>, cir_dir |-> <<>>,
               bp |-> Unbound, bp_cir |-> <<>>, cir_01 |-> <<>>,
               b |-> 0, f |-> 0, err |-> NoErr]

\* fault variant: the forward entry of the first switch names its group
\* before the group is added
first_dp_cir_flow_first(a, st, c, out_port) ==
  LET p == IndexOf(P(a, 0), c)
      nh == away_from(c, p, P(a, 1), P(a, 1))
      s1 == [st EXCEPT !.bp_cir = c, !.bp = nh.bp,
                       !.cir_dir = Append(@, nh.dir)]
  IN IF nh.err # NoErr THEN Raise(st, nh.err)
     ELSE IF ~Linked(a, P(a, 0), nh.bp) THEN Raise(s1, "TypeError")
     ELSE LET bp_port == PortPair(a, P(a, 0), nh.bp)[1]
              in_port == a.fi[4]
              s2 == send_flow_mod(s1, P(a, 0), flow_info(a), in_port,
                                  out_port, a.gid)
              s3 == send_group_mod(s2, P(a, 0), a.gid, out_port, bp_port, 0)
              s4 == send_flow_mod(s3, P(a, 0), flow_info(a), out_port,
                                  bp_port, 0)
          IN [s4 EXCEPT !.path_cir = Append(@, c), !.b = 1]

\* lines 361-389: the first cycle holding path[0] and path[1]
first_dp_cir(a, st, c, out_port) ==
  LET p == IndexOf(P(a, 0), c)
      nh == away_from(c, p, P(a, 1), P(a, 1))
      s1 == [st EXCEPT !.bp_cir = c, !.bp = nh.bp,
                       !.cir_dir = Append(@, nh.dir)]
  IN IF nh.err # NoErr THEN Raise(st, nh.err)
     ELSE IF ~Linked(a, P(a, 0), nh.bp) THEN Raise(s1, "TypeError")
     ELSE LET bp_port == PortPair(a, P(a, 0), nh.bp)[1]
              in_port == a.fi[4]
              s2 == send_group_mod(s1, P(a, 0), a.gid, out_port, bp_port, 0)
              s3 == send_flow_mod(s2, P(a, 0), flow_info(a), in_port,
                                  out_port, a.gid)
              s4 == send_flow_mod(s3, P(a, 0), flow_info(a), out_port,
                                  bp_port, 0)
          IN [s4 EXCEPT !.path_cir = Append(@, c), !.b = 1]

\* line 358: for j in range(len_cir), left by the break of line 390
RECURSIVE first_dp_loop(_, _, _, _)
first_dp_loop(a, st, out_port, j) ==
  IF st.err # NoErr \/ j >= Len(a.cirs) THEN st
  ELSE LET c == PyAt(a.cirs, j)
       IN IF InList(P(a, 0), c) /\ InList(P(a, 1), c)
          THEN first_dp_cir(a, st, c, out_port)
          ELSE first_dp_loop(a, st, out_port, j + 1)

\* lines 352-394
first_dp_block(a, st) ==
  IF st.err # NoErr THEN st
  ELSE IF ~Linked(a, P(a, 0), P(a, 1)) THEN Raise(st, "TypeError")
  ELSE LET out_port == PortPair(a, P(a, 0), P(a, 1))[1]
           in_port == a.fi[4]
           s1 == send_flow_mod(st, P(a, 0), back_info(a), 0, in_port, 0)
           s2 == first_dp_loop(a, s1, out_port, 0)
           s3 == IF s2.b = 0
                 THEN send_flow_mod(s2, P(a, 0), flow_info(a), in_port,
                                    out_port, 0)
                 ELSE s2
       IN IF s3.err # NoErr THEN s3 ELSE [s3 EXCEPT !.b = 0]

\* lines 409-426: for k in range(len(path_cir)); cj is cir_list[j] and p
\* the index of path[-1] in it
RECURSIVE last_dp_known(_, _, _, _, _, _)
last_dp_known(a, st, cj, p, k, n) ==
  IF k >= n THEN st
  ELSE LET pc == PyAt(st.path_cir, k)
       IN IF InList(P(a, -2), pc) /\ InList(P(a, -1), pc)
          THEN [st EXCEPT !.bp_cir = pc]
          ELSE IF k = n - 1
               THEN [st EXCEPT !.path_cir = Append(@, cj), !.bp_cir = cj,
                       !.cir_dir = Append(@, IF P(a, -2) = PyAt(cj, p - 1)
                                             THEN -1 ELSE 1)]
               ELSE last_dp_known(a, st, cj, p, k + 1, n)

\* lines 406-446: the first cycle holding path[-2] and path[-1]
last_dp_cir(a, st, cj, src_port, dst_port) ==
  LET p == IndexOf(P(a, -1), cj)
      s1 == last_dp_known(a, [st EXCEPT !.bp_cir = cj], cj, p, 0,
                          Len(st.path_cir))
      nh == away_from(s1.bp_cir, p, P(a, -2), P(a, -2))
      s2 == [s1 EXCEPT !.bp = nh.bp]
  IN IF nh.err # NoErr THEN Raise(s1, nh.err)
     ELSE IF ~Linked(a, P(a, -1), nh.bp) THEN Raise(s2, "TypeError")
     ELSE LET bp_port == PortPair(a, P(a, -1), nh.bp)[1]
              s3 == send_group_mod(s2, P(a, -1), a.gid, src_port, bp_port, 0)
              s4 == send_flow_mod(s3, P(a, -1), back_info(a), dst_port,
                                  src_port, a.gid)
              s5 == send_flow_mod(s4, P(a, -1), back_info(a), src_port,
                                  bp_port, 0)
          IN [s5 EXCEPT !.b = 1]

\* line 404: for j in range(len_cir), left by the break of line 446
RECURSIVE last_dp_loop(_, _, _, _, _)
last_dp_loop(a, st, src_port, dst_port, j) ==
  IF st.err # NoErr \/ j >= Len(a.cirs) THEN st
  ELSE LET c == PyAt(a.cirs, j)
       IN IF InList(P(a, -2), c) /\ InList(P(a, -1), c)
          THEN last_dp_cir(a, st, c, src_port, dst_port)
          ELSE last_dp_loop(a, st, src_port, dst_port, j + 1)

\* lines 396-450
last_dp_block(a, st) ==
  IF st.err # NoErr THEN st
  ELSE IF P(a, -1) \notin a.dps THEN Raise(st, "KeyError")
  ELSE IF ~Linked(a, P(a, -2), P(a, -1)) THEN Raise(st, "TypeError")
  ELSE LET src_port == PortPair(a, P(a, -2), P(a, -1))[2]
           dst_port == get_port(a.fi[3], a.at)
           s1 == send_flow_mod(st, P(a, -1), flow_info(a), 0, dst_port, 0)
           s2 == last_dp_loop(a, s1, src_port, dst_port, 0)
           s3 == IF s2.b = 0
                 THEN send_flow_mod(s2, P(a, -1), back_info(a), dst_port,
                                    src_port, 0)
                 ELSE s2
       IN IF s3.err # NoErr THEN s3 ELSE [s3 EXCEPT !.b = 0]

\* lines 533-560: for n in range(i), the entries that send the detour back
\* along the path; c is bp_cir_
RECURSIVE inter_1011_back(_, _, _, _, _, _)
inter_1011_back(a, st, i, c, n, h) ==
  IF st.err # NoErr \/ n >= i THEN st
  ELSE IF P(a, n) \notin a.dps THEN Raise(st, "KeyError")
  ELSE IF h = 1
  THEN IF ~Linked(a, P(a, n), P(a, n - 1)) \/ ~Linked(a, P(a, n), P(a, n + 1))
       THEN Raise(st, "TypeError")
       ELSE LET src_port_ == PortPair(a, P(a, n), P(a, n - 1))[1]
                dst_port_ == PortPair(a, P(a, n), P(a, n + 1))[1]
            IN inter_1011_back(a,
                 send_flow_mod(st, P(a, n), flow_info(a), dst_port_,
                               src_port_, 0), i, c, n + 1, 1)
  ELSE IF InList(P(a, n), c)
  THEN LET p_ == IndexOf(P(a, n), c)
           nh == away_from(c, p_, P(a, n + 1), P(a, n + 1))
       IN IF nh.err # NoErr THEN Raise(st, nh.err)
          ELSE IF ~Linked(a, P(a, n), nh.bp) \/ ~Linked(a, P(a, n), P(a, n + 1))
          THEN Raise(st, "TypeError")
          ELSE LET bp_port_ == PortPair(a, P(a, n), nh.bp)[1]
                   dst_port_ == PortPair(a, P(a, n), P(a, n + 1))[1]
               IN inter_1011_back(a,
                    send_flow_mod(st, P(a, n), flow_info(a), dst_port_,
                                  bp_port_, 0), i, c, n + 1, 1)
  ELSE inter_1011_back(a, st, i, c, n + 1, h)

\* lines 503-561: path[i-1], path[i], path[i+1] all on bp_cir_ (= c), reached
\* through an earlier cycle of case 10; pp0 is port_pair[0]
inter_1011(a, st, i, c, src_port, dst_port, bp_port, pp0) ==
  LET dp == P(a, i)
      s0 == [st EXCEPT !.f = 1]
      s1 == send_group_mod(s0, dp, a.gid, dst_port, OFPP_IN_PORT, src_port)
      s2 == send_flow_mod(s1, dp, flow_info(a), bp_port, dst_port, 0)
      s3 == send_flow_mod(s2, dp, flow_info(a), src_port, dst_port, a.gid)
      s4 == send_flow_mod(s3, dp, flow_info(a), dst_port, src_port, 0)
      s5 == send_group_mod(s4, dp, a.gid + 1, src_port, bp_port, 0)
      s6 == send_flow_mod(s5, dp, back_info(a), dst_port, src_port, a.gid + 1)
      p_ == IndexOf(P(a, i - 1), c)
      nh == away_from(c, p_, P(a, i), P(a, i + 1))
  IN IF P(a, i - 1) \notin a.dps THEN Raise(s6, "KeyError")
     ELSE IF nh.err # NoErr THEN Raise(s6, nh.err)
     ELSE IF ~Linked(a, P(a, i - 1), nh.bp) THEN Raise(s6, "TypeError")
     ELSE LET bp_port_ == PortPair(a, P(a, i - 1), nh.bp)[1]
              s7 == send_flow_mod(s6, P(a, i - 1), flow_info(a), pp0,
                                  bp_port_, 0)
          IN inter_1011_back(a, s7, i, c, 0, 0)

\* lines 563-594: path[i], path[i+1] on bp_cir_ (= c), path[i-1] not
inter_1010(a, st, i, c, src_port, dst_port, bp_port) ==
  LET dp == P(a, i)
      s0 == [st EXCEPT !.f = 1]
      p_ == IndexOf(P(a, i), c)
      nh == away_from(c, p_, P(a, i + 1), P(a, i + 1))
  IN IF nh.err # NoErr THEN Raise(s0, nh.err)
     ELSE IF ~Linked(a, P(a, i), nh.bp) THEN Raise(s0, "TypeError")
     ELSE LET bp_port_ == PortPair(a, P(a, i), nh.bp)[1]
       s1 == send_group_mod(s0, dp, a.gid, dst_port, bp_port_, 0)
       s2 == send_flow_mod(s1, dp, flow_info(a), src_port, dst_port, a.gid)
       s3 == send_flow_mod(s2, dp, flow_info(a), bp_port, dst_port, a.gid)
       s4 == send_flow_mod(s3, dp, back_info(a), src_port, bp_port, 0)
       s5 == send_flow_mod(s4, dp, flow_info(a), dst_port, bp_port_, 0)
       s6 == send_group_mod(s5, dp, a.gid + 1, src_port, bp_port, 0)
       s7 == send_flow_mod(s6, dp, back_info(a), dst_port, src_port, a.gid + 1)
       s8 == send_flow_mod(s7, dp, back_info(a), bp_port_, src_port, a.gid + 1)
     IN s8

\* lines 596-607: no cycle holds path[i] and path[i+1]
inter_cir_100(a, st, i, src_port, dst_port, bp_port) ==
  LET dp == P(a, i)
      s0 == [st EXCEPT !.f = 1]
      s1 == send_flow_mod(s0, dp, flow_info(a), src_port, dst_port, 0)
      s2 == send_flow_mod(s1, dp, flow_info(a), bp_port, dst_port, 0)
      s3 == send_group_mod(s2, dp, a.gid, src_port, bp_port, 0)
      s4 == send_flow_mod(s3, dp, back_info(a), dst_port, src_port, a.gid)
      s5 == send_flow_mod(s4, dp, back_info(a), src_port, bp_port, 0)
  IN s5

\* fault variant: the direction is appended whether or not the cycle is
\* already recorded
record_cir_dir_always(a, st, i, c) ==
  LET nh == away_from(c, IndexOf(P(a, i), c), P(a, i + 1), P(a, i + 1))
  IN IF InList(c, st.path_cir) THEN [st EXCEPT !.cir_dir = Append(@, nh.dir)]
     ELSE [st EXCEPT !.path_cir = Append(@, c),
                     !.cir_dir = Append(@, nh.dir)]

\* lines 487-501: record bp_cir_ and its direction unless already recorded
record_cir(a, st, i, c) ==
  IF InList(c, st.path_cir) THEN st
  ELSE LET nh == away_from(c, IndexOf(P(a, i), c), P(a, i + 1), P(a, i + 1))
       IN [st EXCEPT !.path_cir = Append(@, c),
                     !.cir_dir = Append(@, nh.dir)]

\* line 482: for m in range(len_cir)
RECURSIVE inter_10_loop(_, _, _, _, _, _, _, _)
inter_10_loop(a, st, i, m, src_port, dst_port, bp_port, pp0) ==
  IF st.err # NoErr \/ m >= Len(a.cirs) THEN st
  ELSE LET c == PyAt(a.cirs, m)
       IN IF InList(P(a, i), c) /\ InList(P(a, i + 1), c)
          THEN LET s1 == record_cir(a, st, i, c)
               IN IF InList(P(a, i - 1), c)
                  THEN inter_1011(a, s1, i, c, src_port, dst_port, bp_port, pp0)
                  ELSE inter_1010(a, s1, i, c, src_port, dst_port, bp_port)
          ELSE IF m = Len(a.cirs) - 1
               THEN inter_cir_100(a, st, i, src_port, dst_port, bp_port)
               ELSE inter_10_loop(a, st, i, m + 1, src_port, dst_port,
                                  bp_port, pp0)

\* lines 467-607: path[i-1], path[i] on c = cir_list[j], path[i+1] not
inter_circle_10(a, st, i, c, src_port, dst_port, pp0) ==
  LET p == IndexOf(P(a, i), c)
      nh == away_from(c, p, P(a, i - 1), P(a, i - 1))
      s0 == [st EXCEPT !.f = 0]
      s1 == [s0 EXCEPT !.bp = nh.bp]
  IN IF nh.err # NoErr THEN Raise(s0, nh.err)
     ELSE IF ~Linked(a, P(a, i), nh.bp) THEN Raise(s1, "TypeError")
     ELSE inter_10_loop(a, s1, i, 0, src_port, dst_port,
                        PortPair(a, P(a, i), nh.bp)[1], pp0)

\* fault variant: case 11 protects the forward direction only
inter_circle_11_forward_only(a, st, i, src_port, dst_port) ==
  LET dp == P(a, i)
      s1 == send_group_mod(st, dp, a.gid, dst_port, OFPP_IN_PORT, src_port)
      s2 == send_flow_mod(s1, dp, flow_info(a), src_port, dst_port, a.gid)
      s3 == send_flow_mod(s2, dp, flow_info(a), dst_port, src_port, 0)
  IN send_flow_mod(s3, dp, back_info(a), dst_port, src_port, 0)

\* fault variant: case 11 adds both groups under the one id gid
inter_circle_11_one_gid(a, st, i, src_port, dst_port) ==
  LET dp == P(a, i)
      s1 == send_group_mod(st, dp, a.gid, dst_port, OFPP_IN_PORT, src_port)
      s2 == send_flow_mod(s1, dp, flow_info(a), src_port, dst_port, a.gid)
      s3 == send_flow_mod(s2, dp, flow_info(a), dst_port, src_port, 0)
      s4 == send_group_mod(s3, dp, a.gid, src_port, OFPP_IN_PORT, dst_port)
      s5 == send_flow_mod(s4, dp, back_info(a), dst_port, src_port, a.gid)
      s6 == send_flow_mod(s5, dp, back_info(a), src_port, dst_port, 0)
  IN s6

\* lines 611-626: path[i-1], path[i], path[i+1] all on cir_list[j]
inter_circle_11(a, st, i, src_port, dst_port) ==
  LET dp == P(a, i)
      s1 == send_group_mod(st, dp, a.gid, dst_port, OFPP_IN_PORT, src_port)
      s2 == send_flow_mod(s1, dp, flow_info(a), src_port, dst_port, a.gid)
      s3 == send_flow_mod(s2, dp, flow_info(a), dst_port, src_port, 0)
      s4 == send_group_mod(s3, dp, a.gid + 1, src_port, OFPP_IN_PORT, dst_port)
      s5 == send_flow_mod(s4, dp, back_info(a), dst_port, src_port, a.gid + 1)
      s6 == send_flow_mod(s5, dp, back_info(a), src_port, dst_port, 0)
  IN s6

\* lines 646-679 and 688-721: back up path[i] over cir_01; bp keeps the
\* value an earlier block left in it when cir_01 is already in path_cir
inter_circle_01(a, st, i, src_port, dst_port) ==
  LET dp == P(a, i)
      c == st.cir_01
  IN IF ~InList(P(a, i), c) THEN Raise(st, "ValueError")
     ELSE
     LET p == IndexOf(P(a, i), c)
         s0 == [st EXCEPT !.bp_cir = c]
         nh == away_from(c, p, P(a, i + 1), P(a, i + 1))
         s1 == IF InList(c, s0.path_cir) THEN s0
               ELSE [s0 EXCEPT !.path_cir = Append(@, c), !.bp = nh.bp,
                               !.cir_dir = Append(@, nh.dir)]
     IN IF s1.bp = Unbound THEN Raise(s1, "UnboundLocalError")
        ELSE IF ~Linked(a, P(a, i), s1.bp) THEN Raise(s1, "TypeError")
        ELSE LET bp_port == PortPair(a, P(a, i), s1.bp)[1]
          s2 == send_group_mod(s1, dp, a.gid, dst_port, bp_port, 0)
          s3 == send_flow_mod(s2, dp, flow_info(a), src_port, dst_port, a.gid)
          s4 == send_flow_mod(s3, dp, flow_info(a), dst_port, bp_port, 0)
          s5 == send_flow_mod(s4, dp, back_info(a), bp_port, src_port, 0)
          s6 == send_flow_mod(s5, dp, back_info(a), dst_port, src_port, 0)
        IN s6

\* lines 684-686: no cycle met so far backs up path[i]
inter_circle_00(a, st, i, src_port, dst_port) ==
  LET s1 == send_flow_mod(st, P(a, i), flow_info(a), src_port, dst_port, 0)
  IN send_flow_mod(s1, P(a, i), back_info(a), dst_port, src_port, 0)

\* line 464: for j in range(len_cir)
RECURSIVE inter_loop(_, _, _, _, _, _, _)
inter_loop(a, st, i, j, src_port, dst_port, pp0) ==
  IF st.err # NoErr \/ j >= Len(a.cirs) THEN st
  ELSE
  LET c == PyAt(a.cirs, j)
      prev == InList(P(a, i - 1), c)
      cur == InList(P(a, i), c)
      next == InList(P(a, i + 1), c)
      last == (j = Len(a.cirs) - 1)
  IN IF prev /\ cur /\ ~next
     THEN LET s1 == inter_circle_10(a, st, i, c, src_port, dst_port, pp0)
          IN IF s1.f = 1 THEN s1
             ELSE inter_loop(a, s1, i, j + 1, src_port, dst_port, pp0)
     ELSE IF prev /\ cur /\ next
     THEN inter_circle_11(a, st, i, src_port, dst_port)
     ELSE IF ~prev /\ cur /\ next
     THEN LET s1 == [st EXCEPT !.cir_01 = c]
          IN IF last THEN inter_circle_01(a, s1, i, src_port, dst_port)
             ELSE inter_loop(a, s1, i, j + 1, src_port, dst_port, pp0)
     ELSE IF last
     THEN IF Len(st.cir_01) = 0
          THEN inter_circle_00(a, st, i, src_port, dst_port)
          ELSE inter_circle_01(a, st, i, src_port, dst_port)
     ELSE inter_loop(a, st, i, j + 1, src_port, dst_port, pp0)

\* lines 457-463 and the j loop: one interior switch path[i]
inter_dp(a, st, i) ==
  IF st.err # NoErr THEN st
  ELSE IF P(a, i) \notin a.dps THEN Raise(st, "KeyError")
  ELSE IF ~Linked(a, P(a, i - 1), P(a, i)) \/ ~Linked(a, P(a, i), P(a, i + 1))
  THEN Raise(st, "TypeError")
  ELSE LET port_pair == PortPair(a, P(a, i - 1), P(a, i))
           port_next == PortPair(a, P(a, i), P(a, i + 1))
       IN inter_loop(a, st, i, 0, port_pair[2], port_next[1], port_pair[1])

\* lines 455-456: for i in range(1, len_pa-1)
RECURSIVE inter_dp_block(_, _, _)
inter_dp_block(a, st, i) ==
  IF st.err # NoErr \/ i >= Len(a.path) - 1 THEN st
  ELSE inter_dp_block(a, inter_dp(a, st, i), i + 1)

\* lines 731-752: the return stitch at w = path_cir[j][idx], a switch off
\* the path
\* fault variant: the stitch walks every cycle in list order, whatever
\* direction was recorded for it
bp_dp_stitch_list_order(a, st, j, w) ==
  LET c == PyAt(st.path_cir, j)
      p == IndexOf(w, c)
      port == PortPair(a, PyAt(c, p - 1), PyAt(c, p))
      port_next == IF PyHas(c, p + 1)
                   THEN PortPair(a, PyAt(c, p), PyAt(c, p + 1))
                   ELSE PortPair(a, PyAt(c, p), PyAt(c, 0))
  IN IF port # None /\ port_next # None
     THEN LET s1 == send_flow_mod(st, w, flow_info(a), port[2],
                                  port_next[1], 0)
          IN send_flow_mod(s1, w, back_info(a), port_next[1], port[2], 0)
     ELSE st

bp_dp_stitch(a, st, j, w) ==
  LET c == PyAt(st.path_cir, j)
      p == IndexOf(w, c)
  IN IF ~PyHas(st.cir_dir, j) THEN Raise(st, "IndexError")
     ELSE
     LET d == PyAt(st.cir_dir, j)
         port == IF PyHas(c, p - d)
                 THEN PortPair(a, PyAt(c, p - d), PyAt(c, p))
                 ELSE PortPair(a, PyAt(c, 0), PyAt(c, p))
         port_next == IF PyHas(c, p + d)
                      THEN PortPair(a, PyAt(c, p), PyAt(c, p + d))
                      ELSE PortPair(a, PyAt(c, p), PyAt(c, 0))
     IN IF port # None /\ port_next # None
        THEN IF w \notin a.dps THEN Raise(st, "KeyError")
             ELSE LET src_port == port[2]
                      dst_port == port_next[1]
                      s1 == send_flow_mod(st, w, flow_info(a), src_port,
                                          dst_port, 0)
                  IN send_flow_mod(s1, w, back_info(a), dst_port, src_port, 0)
        ELSE st

\* line 727: for i in path_cir[j]
RECURSIVE bp_dp_cir(_, _, _, _)
bp_dp_cir(a, st, j, idx) ==
  IF st.err # NoErr \/ idx >= Len(PyAt(st.path_cir, j)) THEN st
  ELSE LET w == PyAt(PyAt(st.path_cir, j), idx)
       IN bp_dp_cir(a, IF InList(w, a.path) THEN st
                       ELSE bp_dp_stitch(a, st, j, w), j, idx + 1)

\* line 726: for j in range(len(path_cir))
RECURSIVE bp_dp_block(_, _, _)
bp_dp_block(a, st, j) ==
  IF st.err # NoErr \/ j >= Len(st.path_cir) THEN st
  ELSE bp_dp_block(a, bp_dp_cir(a, st, j, 0), j + 1)

\* lines 352-752, for a path of two switches or more
install_flow_path(a) ==
  bp_dp_block(a,
    inter_dp_block(a, last_dp_block(a, first_dp_block(a,
                        [StartState EXCEPT !.bumps = a.bumps])), 1), 0)

\* what line 332-333 logs before install_flow returns; the one value of err
\* besides NoErr that is no exception
PathError == "Path error!"

\* install_flow without the test of lines 330-333
install_flow_unchecked_path(dps, ltp, cirs, at, paths, fi, buffer_id, data, g) ==
  IF Len(paths) = 0 THEN Raise(StartState, "IndexError")
  ELSE LET path == paths[1]
           a == [dps |-> dps, ltp |-> ltp, cirs |-> cirs, at |-> at,
                 path |-> path, fi |-> fi, gid |-> g,
                 bumps |-> <<>>]
       IN IF Len(path) = 0 THEN Raise(StartState, "IndexError")
          ELSE IF path[1] \notin dps THEN Raise(StartState, "KeyError")
          ELSE IF Len(path) < 2 THEN StartState
          ELSE install_flow_path(a)

\* fault variant: the last element of paths is the one programmed
install_flow_last_path(dps, ltp, cirs, at, paths, fi, buffer_id, data, g) ==
  IF Len(paths) = 0 THEN Raise(StartState, "IndexError")
  ELSE LET path == paths[Len(paths)]
           a == [dps |-> dps, ltp |-> ltp, cirs |-> cirs, at |-> at,
                 path |-> path, fi |-> fi, gid |-> g,
                 bumps |-> <<>>]
       IN IF path = None \/ Len(path) = 0 THEN Raise(StartState, PathError)
          ELSE IF path[1] \notin dps THEN Raise(StartState, "KeyError")
          ELSE IF Len(path) < 2 THEN StartState
          ELSE install_flow_path(a)

\* install_flow; the result holds the messages sent, in order, how the call
\* ended, and the locals path_cir and cir_dir as the call left them
install_flow(dps, ltp, cirs, at, paths, fi, buffer_id, data, g) ==
  IF Len(paths) = 0 THEN Raise(StartState, "IndexError")
  ELSE LET path == paths[1]
           a == [dps |-> dps, ltp |-> ltp, cirs |-> cirs, at |-> at,
                 path |-> path, fi |-> fi, gid |-> g,
                 bumps |-> <<>>]
       IN IF path = None \/ Len(path) = 0 THEN Raise(StartState, PathError)
          ELSE IF path[1] \notin dps THEN Raise(StartState, "KeyError")
          ELSE IF Len(path) < 2 THEN StartState
          ELSE install_flow_path(a)

\* install_flow when the counter is raised, by the handling of other
\* packet-ins, while this call waits in a send: bumps[k] is the number of
\* messages the call had sent when the k-th of those increments was made
install_flow_interleaved(dps, ltp, cirs, at, paths, fi, buffer_id, data, g, bumps) ==
  IF Len(paths) = 0 THEN Raise(StartState, "IndexError")
  ELSE LET path == paths[1]
           a == [dps |-> dps, ltp |-> ltp, cirs |-> cirs, at |-> at,
                 path |-> path, fi |-> fi, gid |-> g, bumps |-> bumps]
       IN IF path = None \/ Len(path) = 0 THEN Raise(StartState, PathError)
          ELSE IF path[1] \notin dps THEN Raise(StartState, "KeyError")
          ELSE IF Len(path) < 2 THEN StartState
          ELSE install_flow_path(a)

\* ===================================================================
\* SpecCir: the cycle enumerator applied to every graph on 1..NumSw, on
\* a list that still holds what an earlier enumeration left in it
\* ===================================================================
EmptyGraph == AdjOf({})
NoLinks == [x \in {} |-> <<0, 0>>]
NoHosts == [x \in {} |-> <<0, 0>>]
NoSessions == [x \in {} |-> 0]
NoReports == [x \in {} |-> ""]
CirCall(op, prior) == [op |-> op, prior |-> prior]

InitCir ==
  /\ graph = EmptyGraph /\ cir_list = <<>>
  /\ link_to_port = NoLinks /\ access_table = NoHosts
  /\ datapaths = NoSessions /\ gid = 0 /\ gid_log = <<>>
  /\ last_main = {} /\ reported = NoReports
  /\ weight = WEIGHT_MODEL(CONF_weight) /\ sent = <<>>
  /\ call = CirCall("init", <<>>) /\ ret = 0

\* a link comes up or goes down; the catalogue is stale until the enumerator
\* has run again
Toggle(g, e) ==
  [v \in Sw |-> IF v \in e
                THEN (IF (e \ {v}) \subseteq g[v] THEN g[v] \ e
                      ELSE g[v] \cup (e \ {v}))
                ELSE g[v]]

LinkChanged ==
  \E e \in Edges :
    /\ call.op # "link_changed"
    /\ graph' = Toggle(graph, e)
    /\ call' = CirCall("link_changed", cir_list)
    /\ UNCHANGED <<link_to_port, cir_list, access_table, datapaths, gid,
                   gid_log, last_main, reported, weight, sent, ret>>

\* cnt = find_all_cirs(G, n, cir_list)
FindAllCirs ==
  LET r == find_all_cirs(graph, NumSw, cir_list)
  IN /\ cir_list' = r.cir_list
     /\ ret' = r.cnt
     /\ call' = CirCall("find_all_cirs", cir_list)
     /\ UNCHANGED <<graph, link_to_port, access_table, datapaths, gid,
                    gid_log, last_main, reported, weight, sent>>

NextCir == LinkChanged \/ FindAllCirs
SpecCir == InitCir /\ [][NextCir]_vars

\* ---- what a simple cycle of G is, said without the enumerator
Successor(c, k) == IF k = Len(c) THEN c[1] ELSE c[k + 1]
IsCycleOf(G, c) ==
  /\ Len(c) >= 3
  /\ \A k \in 1..Len(c) : Successor(c, k) \in G[c[k]]
\* every walk round a simple cycle of G, from any start, in either direction
CycleWalks(G) ==
  UNION {{c \in SeqsOver(Sw, n) : IsCycleOf(G, c)} : n \in 3..NumSw}
\* two walks go round the same cycle iff they use the same edges
EdgesOf(c) == {{c[k], Successor(c, k)} : k \in 1..Len(c)}
TimesListed(c, cl) ==
  Cardinality({j \in 1..Len(cl) : EdgesOf(cl[j]) = EdgesOf(c)})

\* C1: after find_all_cirs, cir_list holds every simple cycle of the graph
\* (of every length 3..N) exactly once, whatever rotation or reflection of it
\* is asked for, nothing that is not a cycle of the graph, and the returned
\* count is the length of the list, whatever the list held before the call.
C1_EveryCycleOnce ==
  call.op = "find_all_cirs" =>
    /\ \A c \in CycleWalks(graph) : TimesListed(c, cir_list) = 1
    /\ \A j \in 1..Len(cir_list) : cir_list[j] \in CycleWalks(graph)
    /\ ret = Len(cir_list)

\* the graph {1:{2,3}, 2:{1,3}, 3:{1,2,4}, 4:{3}} enumerated over a list
\* that held other cycles: the single cycle [1,2,3], count 1
C1_Witness ==
  /\ call.op = "find_all_cirs"
  /\ Len(call.prior) >= 2
  /\ call.prior # cir_list
  /\ graph[1] = {2, 3} /\ graph[2] = {1, 3} /\ graph[3] = {1, 2, 4}
  /\ graph[4] = {3}
  /\ cir_list = << <<1, 2, 3>> >>
  /\ ret = 1

\* C2: every cycle find_all_cirs emits is in canonical form: its elements
\* are pairwise distinct, its first element is its smallest, its second
\* element is smaller than its last, and consecutive elements (last to first
\* included) are adjacent in the graph.
C2_CanonicalForm ==
  call.op = "find_all_cirs" =>
    \A j \in 1..Len(cir_list) :
      LET c == cir_list[j]
      IN /\ Len(c) >= 3
         /\ \A x, y \in 1..Len(c) : x # y => c[x] # c[y]
         /\ \A x \in 2..Len(c) : c[1] < c[x]
         /\ c[2] < c[Len(c)]
         /\ \A k \in 1..Len(c) : Successor(c, k) \in graph[c[k]]

\* a graph with cycles of length 3 and of length 4, enumerated
C2_Witness ==
  /\ call.op = "find_all_cirs"
  /\ \E j, k \in 1..Len(cir_list) :
        Len(cir_list[j]) = 3 /\ Len(cir_list[k]) = 4

\* ===================================================================
\* SpecInstall: install_flow applied once to a topology view, a flow and a
\* primary path drawn from every graph on 1..NumSw
\* ===================================================================
\* ports: switch s reaches its neighbour t through port t, and host h is
\* attached through port NumSw + h
PortTo(s, t) == t
HostPort(h) == NumSw + h
LinksOf(g) ==
  [x \in {y \in Sw \X Sw : y[2] \in g[y[1]]} |->
     <<PortTo(x[1], x[2]), PortTo(x[2], x[1])>>]

\* hosts 1 and 2, with ip h and mac h, host 1 at switch s1, host 2 at s2
SrcIp == 1
DstIp == 2
EthTypeIp == 2048
HostsAt(s1, s2) ==
  [k \in {<<s1, HostPort(SrcIp)>>, <<s2, HostPort(DstIp)>>} |->
     IF k[2] = HostPort(SrcIp) THEN <<SrcIp, SrcIp>> ELSE <<DstIp, DstIp>>]

AllSessions == [d \in Sw |-> d]

\* the catalogues the topology view may hold for graph g: the enumeration
\* of its cycles as find_all_cirs leaves it, or up to MaxCat of its cycles
\* in any order
CyclesOf(g) == find_all_cirs(g, NumSw, <<>>).cir_list
Catalogues(g) ==
  LET all == CyclesOf(g)
      cycles == {all[k] : k \in 1..Len(all)}
  IN {all} \cup UNION {SeqsOver(cycles, n) : n \in 0..MaxCat}

\* the simple paths of g from a to b (what the path oracle may return)
PathsOf(g, a, b) ==
  {q \in UNION {SeqsOver(Sw, n) : n \in 1..NumSw} :
     /\ q[1] = a /\ q[Len(q)] = b
     /\ \A k \in 1..(Len(q) - 1) : q[k + 1] \in g[q[k]]}

\* where the hosts of the access table are
HostSw(at, ip) == (CHOOSE k \in DOMAIN at : at[k][1] = ip)[1]

InstallCall(op, paths, fi, buffer_id, r) ==
  [op |-> op, paths |-> paths, fi |-> fi, buffer_id |-> buffer_id,
   path_cir |-> r.path_cir, cir_dir |-> r.cir_dir]

InitInstall ==
  /\ graph \in Graphs
  /\ link_to_port = LinksOf(graph)
  /\ cir_list \in Catalogues(graph)
  /\ \E s1, s2 \in Sw : access_table = HostsAt(s1, s2)
  /\ datapaths = AllSessions
  /\ gid \in {2 * k : k \in 1..MaxPacketIn}
  /\ gid_log = <<>> /\ last_main = Sw /\ reported = NoReports
  /\ weight = WEIGHT_MODEL(CONF_weight)
  /\ sent = <<>>
  /\ call = InstallCall("init", <<>>, <<>>, 0, StartState)
  /\ ret = NoErr

\* the view had path_cir been the catalogue itself instead of a fresh list:
\* every cycle recorded would land in cir_list
view_after_shared_catalogue(ltp, cirs, at, r) ==
  [ltp |-> ltp, cirs |-> cirs \o r.path_cir, at |-> at]

\* the lists and maps install_flow was handed, as the call leaves them:
\* path_cir and cir_dir are fresh lists (lines 343, 346), the cycles appended
\* to path_cir are the objects of cir_list, and no statement of lines 319-752
\* writes to link_to_port, cir_list, a cycle or access_table
view_after(ltp, cirs, at, r) == [ltp |-> ltp, cirs |-> cirs, at |-> at]

\* self.install_flow(self.datapaths, link_to_port, cir_list, access_table,
\*                   paths, flow_info, msg.buffer_id, msg.data)
InstallFlow ==
  /\ call.op = "init"
  /\ \E path \in PathsOf(graph, HostSw(access_table, SrcIp),
                          HostSw(access_table, DstIp)) \cup {None} :
     \E in_port \in {HostPort(SrcIp)} \cup
                     (IF path = None THEN {}
                      ELSE {PortTo(path[1], t) : t \in graph[path[1]]}) :
    LET fi == <<EthTypeIp, SrcIp, DstIp, in_port>>
        r == install_flow(DOMAIN datapaths, link_to_port, cir_list,
                          access_table, <<path>>, fi, OFP_NO_BUFFER, 1, gid)
        v == view_after(link_to_port, cir_list, access_table, r)
    IN /\ sent' = r.msgs
       /\ ret' = r.err
       /\ call' = InstallCall("install_flow", <<path>>, fi, OFP_NO_BUFFER, r)
       /\ link_to_port' = v.ltp /\ cir_list' = v.cirs
       /\ access_table' = v.at
       /\ UNCHANGED <<graph, datapaths, gid, gid_log, last_main, reported,
                      weight>>

NextInstall == InstallFlow
SpecInstall == InitInstall /\ [][NextInstall]_vars

\* ---- reading the messages of one install_flow call
IsInstall == call.op = "install_flow"
ThePath == call.paths[1]
OnPath(s) == InList(s, ThePath)
Sent(type) == {k \in 1..Len(sent) : sent[k].type = type}
IsForward(m) == m.ipv4_src = call.fi[2] /\ m.ipv4_dst = call.fi[3]
IsBackward(m) == m.ipv4_src = call.fi[3] /\ m.ipv4_dst = call.fi[2]
\* the switch behind a link port of s
NeighbourVia(s, port) ==
  {t \in Sw : /\ <<s, t>> \in DOMAIN link_to_port
              /\ link_to_port[<<s, t>>][1] = port}
\* c[(p + d) mod k] for the 0-based position p
Around(c, p, d) == c[((p + d) % Len(c)) + 1]
AdjacentIn(c, s, t) ==
  /\ InList(s, c)
  /\ t \in {Around(c, IndexOf(s, c), 1), Around(c, IndexOf(s, c), -1)}

\* C3: whenever install_flow installs an FF group at an on-path switch whose
\* second bucket leads to a switch (not back out of the in-port), that switch
\* is an immediate neighbour of the on-path switch in a catalogue cycle that
\* also holds the protected on-path neighbour (the one behind the first
\* bucket), and it is not that protected neighbour.
C3_BackupNextHop ==
  IsInstall =>
    \A k \in Sent("GroupMod") :
      LET m == sent[k]
      IN (OnPath(m.dp) /\ m.buckets[2].out_port # OFPP_IN_PORT) =>
           \E j \in 1..Len(cir_list) :
           \E t \in NeighbourVia(m.dp, m.buckets[2].out_port) :
           \E u \in NeighbourVia(m.dp, m.buckets[1].out_port) :
             /\ InList(u, cir_list[j])
             /\ AdjacentIn(cir_list[j], m.dp, t)
             /\ t # u

\* C5: every FF GroupMod install_flow emits has exactly two buckets, and both
\* have a watch_port other than 0, also when the second bucket outputs to
\* OFPP_IN_PORT.
C5_TwoWatchedBuckets ==
  IsInstall =>
    \A k \in Sent("GroupMod") :
      /\ Len(sent[k].buckets) = 2
      /\ sent[k].buckets[1].watch_port # 0
      /\ sent[k].buckets[2].watch_port # 0

\* one call that emitted a group bouncing to OFPP_IN_PORT and a group with
\* a backup port
C5_Witness ==
  /\ IsInstall
  /\ \E k \in Sent("GroupMod") : sent[k].buckets[2].out_port = OFPP_IN_PORT
  /\ \E k \in Sent("GroupMod") : sent[k].buckets[2].out_port # OFPP_IN_PORT

\* C10: for a primary path of two switches and an empty catalogue,
\* install_flow emits exactly 4 FlowMods (a forward and a backward one at each
\* switch), exactly 1 PacketOut and no GroupMod.
C10_TwoSwitchPath ==
  (IsInstall /\ Len(ThePath) = 2 /\ cir_list = <<>>) =>
    /\ Cardinality(Sent("FlowMod")) = 4
    /\ \A s \in {ThePath[1], ThePath[2]} :
         /\ \E k \in Sent("FlowMod") : sent[k].dp = s /\ IsForward(sent[k])
         /\ \E k \in Sent("FlowMod") : sent[k].dp = s /\ IsBackward(sent[k])
    /\ Cardinality(Sent("PacketOut")) = 1
    /\ Cardinality(Sent("GroupMod")) = 0

\* C7: for every forward FlowMod with in_port a and output port b sent to an
\* on-path switch, the same call sends that switch a backward FlowMod with
\* in_port b and output port a.
C7_RoundTrip ==
  IsInstall =>
    \A k \in Sent("FlowMod") :
      LET m == sent[k]
      IN (OnPath(m.dp) /\ IsForward(m) /\ m.group_id = 0 /\ m.in_port # 0) =>
           \E n \in Sent("FlowMod") :
             /\ sent[n].dp = m.dp /\ IsBackward(sent[n])
             /\ sent[n].group_id = 0
             /\ sent[n].in_port = m.out_port
             /\ sent[n].out_port = m.in_port

\* the port of w on its link to x
FacingPort(w, x) == link_to_port[<<w, x>>][1]
OffPathOf(c) == {c[n] : n \in 1..Len(c)} \ {ThePath[n] : n \in 1..Len(ThePath)}
IsEntry(m, w, fwd, a, b) ==
  /\ m.dp = w /\ m.group_id = 0 /\ m.in_port = a /\ m.out_port = b
  /\ IF fwd THEN IsForward(m) ELSE IsBackward(m)

\* C6: an off-path switch w at position p of the recorded cycle
\* c = path_cir[j], with d = cir_dir[j], gets a forward entry from its port
\* facing c[(p - d) mod k] to its port facing c[(p + d) mod k] and a backward
\* entry with the two ports swapped; off-path switches get no other entry.
C6_ReturnStitchPorts ==
  IsInstall =>
    /\ ret = NoErr =>
         \A j \in 1..Len(call.path_cir) :
           LET c == call.path_cir[j]
           IN \A w \in OffPathOf(c) :
                LET p == IndexOf(w, c)
                    d == call.cir_dir[j]
                    a == FacingPort(w, Around(c, p, -d))
                    b == FacingPort(w, Around(c, p, d))
                IN /\ \E k \in Sent("FlowMod") : IsEntry(sent[k], w, TRUE, a, b)
                   /\ \E k \in Sent("FlowMod") : IsEntry(sent[k], w, FALSE, b, a)
    /\ \A k \in Sent("FlowMod") :
         ~OnPath(sent[k].dp) =>
           \E j \in 1..Len(call.path_cir) :
             LET c == call.path_cir[j]
                 w == sent[k].dp
             IN /\ w \in OffPathOf(c)
                /\ LET p == IndexOf(w, c)
                       d == call.cir_dir[j]
                       a == FacingPort(w, Around(c, p, -d))
                       b == FacingPort(w, Around(c, p, d))
                   IN \/ IsEntry(sent[k], w, TRUE, a, b)
                      \/ IsEntry(sent[k], w, FALSE, b, a)

\* a completed call that stitched off-path switches into two recorded
\* cycles, one walked against list order and one in list order, one of the
\* switches being the last of its list (where the index runs off the end)
C6_Witness ==
  /\ IsInstall /\ ret = NoErr
  /\ \E j1, j2 \in 1..Len(call.path_cir) :
       LET c1 == call.path_cir[j1]
           c2 == call.path_cir[j2]
       IN /\ call.cir_dir[j1] = -1 /\ OffPathOf(c1) # {}
          /\ call.cir_dir[j2] = 1 /\ OffPathOf(c2) # {}
          /\ c1[Len(c1)] \in OffPathOf(c1) \/ c2[Len(c2)] \in OffPathOf(c2)

\* ------------------------------------------------------------ the dispatcher
\* ShortestForwarding as the event loop drives it: one handler at a time,
\* the messages of a handler handed to the switches before the next event.
RawFrame == 1                 \* msg.data of a packet-in
SomeBuffer == 7               \* msg.buffer_id of a packet the switch holds
Hosts == {SrcIp, DstIp}
MAIN_DISPATCHER == "main"
DEAD_DISPATCHER == "dead"

\* the topologies the topology view goes through, and where the hosts are
\* plugged in
Topologies ==
  {AdjOf({}), AdjOf({{1, 2}, {2, 3}}), AdjOf({{1, 2}, {2, 3}, {1, 3}})}
HostHomes(h) == IF h = SrcIp THEN {1} ELSE {1, 2, 3}

\* awareness.access_ports[dpid]: the ports of a switch that are no link ports
access_ports(dpid) == {HostPort(h) : h \in Hosts}

\* awareness.get_host_location(ip): the (dpid, port) key of the host, or None
get_host_location(at, ip) ==
  IF \E k \in DOMAIN at : at[k][1] = ip
  THEN CHOOSE k \in DOMAIN at : at[k][1] = ip
  ELSE None

get_sw(at, dpid, in_port, src, dst) ==
  LET src_location == get_host_location(at, src)
      dst_location == get_host_location(at, dst)
  IN IF in_port \in access_ports(dpid) /\ <<dpid, in_port>> # src_location
     THEN None
     ELSE <<dpid, IF dst_location # None THEN dst_location[1] ELSE NoneInt>>

\* get_path under the hop weight: the primary path, with or without a backup
get_path(g, src, dst) ==
  {<<q>> : q \in PathsOf(g, src, dst)} \cup
  {<<x[1], x[2]>> : x \in {y \in PathsOf(g, src, dst) \X PathsOf(g, src, dst) :
                             y[1] # y[2]}}

\* what shortest_forwarding may get from get_path for this packet-in; no
\* path is looked up when get_sw gives no destination switch
PathsFor(g, at, dpid, in_port, src, dst) ==
  LET result == get_sw(at, dpid, in_port, src, dst)
  IN IF result = None THEN {<<>>}
     ELSE IF result[2] = NoneInt THEN {<<>>}
     ELSE get_path(g, result[1], result[2])

\* msg: the packet-in (dpid, in_port, buffer_id, data); view: what
\* self.awareness holds (link_to_port, cir_list, access_table)
shortest_forwarding(dps, view, msg, eth_type, ip_src, ip_dst, paths, g) ==
  LET result == get_sw(view.at, msg.dpid, msg.in_port, ip_src, ip_dst)
  IN IF result = None THEN StartState
     ELSE IF result[2] = NoneInt THEN StartState
     ELSE install_flow(dps, view.ltp, view.cirs, view.at, paths,
                       <<eth_type, ip_src, ip_dst, msg.in_port>>,
                       msg.buffer_id, msg.data, g)

\* flood: one PacketOut per access port without a host record, switch by
\* switch
RECURSIVE flood_from(_, _, _, _, _)
flood_from(st, dps, at, data, todo) ==
  IF st.err # NoErr \/ todo = <<>> THEN st
  ELSE LET dpid == todo[1][1]
           port == todo[1][2]
           s1 == IF <<dpid, port>> \in DOMAIN at THEN st
                 ELSE IF dpid \notin dps THEN Raise(st, "KeyError")
                 ELSE Emit(st, build_packet_out(dpid, OFP_NO_BUFFER,
                                                OFPP_CONTROLLER, port, data))
       IN flood_from(s1, dps, at, data, Tail(todo))

RECURSIVE PortsOf(_)
PortsOf(dpids) ==
  IF dpids = <<>> THEN <<>>
  ELSE LET ports == Iter(access_ports(dpids[1]))
       IN [k \in 1..Len(ports) |-> <<dpids[1], ports[k]>>]
            \o PortsOf(Tail(dpids))

flood(dps, at, data) == flood_from(StartState, dps, at, data, PortsOf(Iter(Sw)))

arp_forwarding(dps, at, data, dst_ip) ==
  LET result == get_host_location(at, dst_ip)
  IN IF result # None
     THEN IF result[1] \notin dps THEN Raise(StartState, "KeyError")
          ELSE Emit(StartState,
                    build_packet_out(result[1], OFP_NO_BUFFER,
                                     OFPP_CONTROLLER, result[2], data))
     ELSE flood(dps, at, data)

\* self.gid += 2
next_gid_by_one(g) == g + 1
next_gid(g) == g + 2

GroupIdsIn(msgs) ==
  {msgs[k].group_id : k \in {n \in 1..Len(msgs) : msgs[n].group_id # 0}}

\* ---- the events
EventCall(op, dpid, arg, paths, fi, buffer_id, r) ==
  [op |-> op, dpid |-> dpid, arg |-> arg, paths |-> paths, fi |-> fi,
   buffer_id |-> buffer_id, path_cir |-> r.path_cir, cir_dir |-> r.cir_dir]
IdleCall == EventCall("idle", 0, "", <<>>, <<>>, 0, StartState)
Idle == call.op = "idle"

\* __init__, before any topology or host is known
Init ==
  /\ graph = EmptyGraph /\ link_to_port = NoLinks /\ cir_list = <<>>
  /\ access_table = NoHosts
  /\ datapaths = NoSessions /\ gid = 0 /\ gid_log = <<>> /\ last_main = {}
  /\ reported = NoReports
  /\ weight = WEIGHT_MODEL(CONF_weight)
  /\ sent = <<>> /\ call = IdleCall /\ ret = NoErr

\* _state_change_handler: self.datapaths after the event
state_change_handler_keeps_dead(dps, dpid, state) ==
  IF state = MAIN_DISPATCHER /\ dpid \notin DOMAIN dps
  THEN [d \in DOMAIN dps \cup {dpid} |-> d]
  ELSE dps

state_change_handler(dps, dpid, state) ==
  IF state = MAIN_DISPATCHER
  THEN (IF dpid \notin DOMAIN dps
        THEN [d \in DOMAIN dps \cup {dpid} |-> d]
        ELSE dps)
  ELSE (IF dpid \in DOMAIN dps
        THEN [d \in DOMAIN dps \ {dpid} |-> d]
        ELSE dps)

StateChange ==
  \E dpid \in Sw, state \in {MAIN_DISPATCHER, DEAD_DISPATCHER} :
    /\ Idle
    /\ datapaths' = state_change_handler(datapaths, dpid, state)
    /\ last_main' = IF state = MAIN_DISPATCHER THEN last_main \cup {dpid}
                    ELSE last_main \ {dpid}
    /\ call' = EventCall("state_change", dpid, state, <<>>, <<>>, 0, StartState)
    /\ sent' = <<>> /\ ret' = NoErr
    /\ UNCHANGED <<graph, link_to_port, cir_list, access_table, gid, gid_log,
                   weight, reported>>

\* the topology view is replaced wholesale, catalogue included
TopologyReplaced ==
  \E g \in Topologies :
    /\ Idle /\ g # graph
    /\ graph' = g
    /\ link_to_port' = LinksOf(g)
    /\ cir_list' = CyclesOf(g)
    /\ UNCHANGED <<access_table, datapaths, gid, gid_log, last_main, reported,
                   weight,
                   sent,
                   call, ret>>

\* the topology view learns where a host is
HostLearned ==
  \E h \in Hosts :
  \E s \in HostHomes(h) :
    /\ Idle /\ get_host_location(access_table, h) = None
    /\ access_table' =
         [k \in DOMAIN access_table \cup {<<s, HostPort(h)>>} |->
            IF k \in DOMAIN access_table THEN access_table[k] ELSE <<h, h>>]
    /\ UNCHANGED <<graph, link_to_port, cir_list, datapaths, gid, gid_log,
                   last_main, reported, weight,
                   sent, call, ret>>

\* _packet_in_handler, ARP frame
PacketInArp ==
  /\ Idle
  /\ \E dpid \in DOMAIN datapaths :
     \E src_ip \in Hosts :
     \E dst_ip \in Hosts \ {src_ip} :
    LET r == arp_forwarding(DOMAIN datapaths, access_table, RawFrame, dst_ip)
    IN /\ sent' = r.msgs
       /\ ret' = r.err
       /\ call' = EventCall("packet_in_arp", dpid, "",  <<>>,
                            <<0, src_ip, dst_ip, HostPort(src_ip)>>,
                            OFP_NO_BUFFER, StartState)
       /\ UNCHANGED <<graph, link_to_port, cir_list, access_table, datapaths,
                      gid, gid_log, last_main, reported, weight>>

\* _packet_in_handler, IPv4 frame
PacketInIPv4 ==
  /\ Idle /\ Len(gid_log) < MaxPacketIn
  /\ \E dpid \in DOMAIN datapaths :
     \E ip_src \in Hosts :
     \E ip_dst \in Hosts \ {ip_src} :
     \E in_port \in access_ports(dpid) \cup
                     {PortTo(dpid, t) : t \in graph[dpid]} :
     \E buffer_id \in {OFP_NO_BUFFER, SomeBuffer} :
     \E paths \in PathsFor(graph, access_table, dpid, in_port, ip_src,
                           ip_dst) :
    LET g == next_gid(gid)
        view == [ltp |-> link_to_port, cirs |-> cir_list, at |-> access_table]
        msg == [dpid |-> dpid, in_port |-> in_port, buffer_id |-> buffer_id,
                data |-> RawFrame]
        r == shortest_forwarding(DOMAIN datapaths, view, msg, EthTypeIp,
                                 ip_src, ip_dst, paths, g)
        v == view_after(link_to_port, cir_list, access_table, r)
    IN /\ gid' = g
       /\ gid_log' = Append(gid_log, [gid |-> g, used |-> GroupIdsIn(r.msgs)])
       /\ sent' = r.msgs
       /\ ret' = r.err
       /\ call' = EventCall("packet_in_ipv4", dpid, "", paths,
                            <<EthTypeIp, ip_src, ip_dst, in_port>>,
                            buffer_id, r)
       /\ link_to_port' = v.ltp /\ cir_list' = v.cirs
       /\ access_table' = v.at
       /\ UNCHANGED <<graph, datapaths, last_main, reported, weight>>

\* _error_msg_handler
\* what the object holds and what the handler has sent
Self(dps, g, w, msgs) == [datapaths |-> dps, gid |-> g, weight |-> w,
                          msgs |-> msgs]

\* an error handler that takes the switch for gone
error_msg_handler_drops_switch(self, dpid) ==
  [self EXCEPT !.datapaths = [d \in DOMAIN @ \ {dpid} |-> d]]

\* _error_msg_handler: reads msg.datapath.id, msg.type and msg.code and
\* prints them
error_msg_handler(self, dpid) == self

ErrorMsg ==
  \E dpid \in Sw :
    /\ Idle
    /\ LET r == error_msg_handler(Self(datapaths, gid, weight, <<>>), dpid)
       IN /\ datapaths' = r.datapaths /\ gid' = r.gid /\ weight' = r.weight
          /\ sent' = r.msgs
    /\ call' = EventCall("error_msg", dpid, "", <<>>, <<>>, 0, StartState)
    /\ ret' = NoErr
    /\ UNCHANGED <<graph, link_to_port, cir_list, access_table, gid_log,
                   last_main, reported>>

\* the handler has returned and its messages are with the switches
Deliver ==
  /\ ~Idle
  /\ call' = IdleCall /\ sent' = <<>> /\ ret' = NoErr
  /\ UNCHANGED <<graph, link_to_port, cir_list, access_table, datapaths,
                 gid, gid_log, last_main, reported, weight>>

Next ==
  \/ StateChange \/ TopologyReplaced \/ HostLearned
  \/ PacketInArp \/ PacketInIPv4 \/ ErrorMsg \/ Deliver
Spec == Init /\ [][Next]_vars

IsIPv4 == call.op = "packet_in_ipv4"
Programmed == IsIPv4 /\ call.paths # <<>>
GidPair(n) == {gid_log[n].gid, gid_log[n].gid + 1}

\* C4: the group-id counter never goes down; the handling of an IPv4
\* packet-in raises it by exactly 2 and no other event changes it; the group
\* ids a packet-in's messages name lie in its pair {gid, gid+1}, and the
\* pairs of any two packet-ins are disjoint.
C4_GidMonotone ==
  /\ [](\A m \in 1..Len(gid_log) :
          /\ gid_log[m].used \subseteq GidPair(m)
          /\ \A n \in 1..Len(gid_log) :
               m # n => GidPair(m) \cap GidPair(n) = {})
  /\ [][/\ gid' >= gid
        /\ IF Idle /\ call'.op = "packet_in_ipv4" THEN gid' = gid + 2
           ELSE gid' = gid]_vars

\* two IPv4 packet-ins have been handled and each installed groups, the
\* second one just now and to the end
C4_Witness ==
  /\ Len(gid_log) = 2
  /\ gid_log[1].used # {} /\ gid_log[2].used # {}
  /\ gid = gid_log[2].gid
  /\ IsIPv4 /\ ret = NoErr

\* C8: when both hosts attach to the switch of the packet-in (the primary
\* path is that single switch), the handling emits exactly two FlowMods, a
\* forward and a backward one between the two access ports, exactly one
\* PacketOut and no GroupMod.
C8_SameSwitch ==
  (Programmed /\ Len(ThePath) = 1) =>
    /\ Cardinality(Sent("FlowMod")) = 2
    /\ \E k \in Sent("FlowMod") :
         /\ IsForward(sent[k]) /\ sent[k].dp = ThePath[1]
         /\ sent[k].in_port = HostPort(call.fi[2])
         /\ sent[k].out_port = HostPort(call.fi[3])
    /\ \E k \in Sent("FlowMod") :
         /\ IsBackward(sent[k]) /\ sent[k].dp = ThePath[1]
         /\ sent[k].in_port = HostPort(call.fi[3])
         /\ sent[k].out_port = HostPort(call.fi[2])
    /\ Cardinality(Sent("PacketOut")) = 1
    /\ Cardinality(Sent("GroupMod")) = 0

\* C9: when the handling of an IPv4 packet-in programs a path of two
\* switches or more to the end, the last message it emits is a PacketOut to
\* the first switch of the path, the only PacketOut of the handling; it
\* carries the buffer_id of the packet-in when that is not OFP_NO_BUFFER and
\* the raw frame otherwise.
C9_PacketOutLast ==
  (Programmed /\ Len(ThePath) >= 2 /\ ret = NoErr) =>
    /\ sent # <<>>
    /\ Sent("PacketOut") = {Len(sent)}
    /\ LET m == sent[Len(sent)]
       IN /\ m.dp = ThePath[1]
          /\ IF call.buffer_id # OFP_NO_BUFFER
             THEN m.buffer_id = call.buffer_id /\ m.data = NoneInt
             ELSE m.buffer_id = OFP_NO_BUFFER /\ m.data = RawFrame

\* ---- a path of three switches round its own triangle
SetOf(lst) == {lst[k] : k \in 1..Len(lst)}
TrianglePath ==
  /\ IsInstall /\ Len(ThePath) = 3
  /\ Len(cir_list) = 1 /\ SetOf(cir_list[1]) = SetOf(ThePath)
NoneOffPath == \A k \in 1..Len(sent) : OnPath(sent[k].dp)

\* C11: for a primary path [s0, s1, s2] and a catalogue holding only the
\* cycle through s0, s1, s2, install_flow emits exactly 2 GroupMods and sends
\* no FlowMod to a switch outside the path.
C11_TwoGroupMods ==
  TrianglePath =>
    /\ Cardinality(Sent("GroupMod")) = 2
    /\ NoneOffPath

\* C11, amended: it emits exactly 4 GroupMods - one at s0, the forward and
\* the backward one of case 11 at s1, one at s2 - and sends no FlowMod to a
\* switch outside the path.
C11_FourGroupMods ==
  TrianglePath =>
    /\ Cardinality(Sent("GroupMod")) = 4
    /\ Cardinality({k \in Sent("GroupMod") : sent[k].dp = ThePath[1]}) = 1
    /\ Cardinality({k \in Sent("GroupMod") : sent[k].dp = ThePath[2]}) = 2
    /\ Cardinality({k \in Sent("GroupMod") : sent[k].dp = ThePath[3]}) = 1
    /\ NoneOffPath

C11_Witness == TrianglePath /\ ret = NoErr /\ Cardinality(Sent("GroupMod")) = 4

\* C12: whatever events have been handled, a dpid is a key of self.datapaths
\* exactly when the latest state-change event for it was MAIN_DISPATCHER.
C12_RegistryFollowsState == DOMAIN datapaths = last_main

\* a switch has just been reported dead while another one stays registered,
\* after IPv4 packet-ins were handled
C12_Witness ==
  /\ call.op = "state_change" /\ call.arg = DEAD_DISPATCHER
  /\ call.dpid \notin DOMAIN datapaths
  /\ DOMAIN datapaths # {}
  /\ gid_log # <<>>

\* ---- ARP
IsArp == call.op = "packet_in_arp"
IsFlood == IsArp /\ get_host_location(access_table, call.fi[3]) = None
OutTo(dpid, port) ==
  {k \in Sent("PacketOut") : sent[k].dp = dpid /\ sent[k].out_port = port}

\* C13: on an ARP packet-in whose target has no known location, flood sends
\* exactly one PacketOut to every (dpid, port) with port in access_ports[dpid]
\* and (dpid, port) not a key of access_table, and nothing else.
C13_FloodEveryFreePort ==
  IsFlood =>
    /\ \A dpid \in Sw :
       \A port \in access_ports(dpid) :
         Cardinality(OutTo(dpid, port)) =
           IF <<dpid, port>> \in DOMAIN access_table THEN 0 ELSE 1
    /\ \A k \in 1..Len(sent) :
         /\ sent[k].type = "PacketOut"
         /\ sent[k].out_port \in access_ports(sent[k].dp)

\* C14: when an ARP frame is flooded, no PacketOut goes to the switch it
\* arrived on with the port it arrived on as output port.
C14_NotBackOutArrivalPort ==
  IsFlood => OutTo(call.dpid, call.fi[4]) = {}

\* ---- IPv4 packet-ins whose hosts are not both located
Located(ip) == get_host_location(access_table, ip) # None
Resolved(at, dpid, fi) ==
  LET result == get_sw(at, dpid, fi[4], fi[2], fi[3])
  IN result # None /\ result[2] # NoneInt

\* C15: an IPv4 packet-in whose source host or destination host has no known
\* location emits no FlowMod, no GroupMod and no PacketOut, whatever the
\* arrival switch and in_port (access port or not).
C15_UnknownHostDropped ==
  (IsIPv4 /\ ~(Located(call.fi[2]) /\ Located(call.fi[3]))) => sent = <<>>

\* C16: the handling of an IPv4 packet-in raises the group-id counter by 2
\* only when get_sw resolved both the source and the destination switch; a
\* packet-in dropped for an unknown host location leaves the counter as it
\* was.
C16_GidOnlyWhenResolved ==
  [][(Idle /\ call'.op = "packet_in_ipv4") =>
       IF Resolved(access_table, call'.dpid, call'.fi)
       THEN gid' = gid + 2 ELSE gid' = gid]_vars

\* C17: no handling of a packet-in, ARP or IPv4, ends with an exception.
C17_NoException ==
  (IsArp \/ IsIPv4) => ret = NoErr

\* ---- install_flow without a path
NoPath == IsInstall /\ ThePath = None

\* C18: install_flow handed a primary path that is None or has length 0 sends
\* no message and returns after logging, and the registry and the group-id
\* counter are what they were before the call.
C18_NoPathNoMessage ==
  [][(call'.op = "install_flow" /\ call'.paths[1] = None) =>
       /\ sent' = <<>> /\ ret' = PathError
       /\ datapaths' = datapaths /\ gid' = gid]_vars

\* such a call has been made, with cycles in the catalogue and every switch
\* registered
C18_Witness ==
  NoPath /\ sent = <<>> /\ ret = PathError /\ cir_list # <<>>
    /\ DOMAIN datapaths = Sw

\* ---- error messages
\* C19: handling an OpenFlow error message leaves the registry, the group-id
\* counter and the weight mode as they were and emits no message; the
\* registry changes only in the handling of a state-change event.
C19_ErrorMsgInert ==
  [][/\ call'.op = "error_msg" =>
          /\ datapaths' = datapaths /\ gid' = gid /\ weight' = weight
          /\ sent' = <<>>
     /\ datapaths' # datapaths => call'.op = "state_change"]_vars

\* an error message from a registered switch has been handled, after an
\* IPv4 packet-in had raised the counter
C19_Witness ==
  /\ call.op = "error_msg" /\ call.dpid \in DOMAIN datapaths
  /\ gid > 0 /\ sent = <<>>

ToGroup == {k \in Sent("FlowMod") : sent[k].group_id # 0}

\* C21: in one install_flow call, a FlowMod that matches src->dst and goes to
\* a group names group id gid, and one that matches dst->src names gid+1, at
\* the first, the last and every interior switch.
C21_DirectionGid ==
  IsInstall =>
    \A k \in ToGroup :
      /\ IsForward(sent[k]) => sent[k].group_id = gid
      /\ IsBackward(sent[k]) => sent[k].group_id = gid + 1

\* ---- interior hops
\* the 1-based positions of the interior switches of the path
Interior == 2..(Len(ThePath) - 1)
\* some catalogue cycle holds every switch of S
Covered(S) == \E j \in 1..Len(cir_list) : S \subseteq SetOf(cir_list[j])
\* the messages one switch was sent
SentTo(s) == {k \in 1..Len(sent) : sent[k].dp = s}

\* C22: an interior hop path[i] that shares no catalogue cycle with path[i-1]
\* and none with path[i+1] (the empty catalogue included) is sent exactly the
\* plain forward FlowMod from its port facing path[i-1] to its port facing
\* path[i+1] and the plain backward FlowMod with the ports swapped, and no
\* GroupMod.
C22_PlainInteriorHop ==
  (IsInstall /\ ThePath # None /\ ret = NoErr) =>
    \A i \in Interior :
      LET s == ThePath[i]
          a == FacingPort(s, ThePath[i - 1])
          b == FacingPort(s, ThePath[i + 1])
      IN (~Covered({s, ThePath[i - 1]}) /\ ~Covered({s, ThePath[i + 1]})) =>
           /\ Cardinality(SentTo(s)) = 2
           /\ \E k \in SentTo(s) : IsEntry(sent[k], s, TRUE, a, b)
           /\ \E k \in SentTo(s) : IsEntry(sent[k], s, FALSE, b, a)

\* the GroupMods sent to s whose group a FlowMod of s in the given direction
\* goes to
GroupsFor(s, fwd) ==
  {k \in Sent("GroupMod") :
     /\ sent[k].dp = s
     /\ \E n \in ToGroup :
          /\ sent[n].dp = s /\ sent[n].group_id = sent[k].group_id
          /\ IF fwd THEN IsForward(sent[n]) ELSE IsBackward(sent[n])}
Bounces(k) == sent[k].buckets[2].out_port = OFPP_IN_PORT

\* C23: an interior hop path[i] that lies on one catalogue cycle together
\* with path[i-1] and path[i+1] is sent a forward FF group and a backward FF
\* group whose second buckets both output to OFPP_IN_PORT, whatever the order
\* of the cycles in the catalogue.
C23_BothGroupsBounce ==
  (IsInstall /\ ThePath # None /\ ret = NoErr) =>
    \A i \in Interior :
      Covered({ThePath[i - 1], ThePath[i], ThePath[i + 1]}) =>
        /\ \E k \in GroupsFor(ThePath[i], TRUE) : Bounces(k)
        /\ \E k \in GroupsFor(ThePath[i], FALSE) : Bounces(k)

\* ---- the cycles used and the cycles recorded
\* w was sent a plain FlowMod in each direction
Stitched(w) ==
  /\ \E k \in Sent("FlowMod") :
       sent[k].dp = w /\ sent[k].group_id = 0 /\ IsForward(sent[k])
  /\ \E k \in Sent("FlowMod") :
       sent[k].dp = w /\ sent[k].group_id = 0 /\ IsBackward(sent[k])

\* C24: whenever the second bucket of an FF group at an on-path switch s
\* leads to a neighbour t, a cycle on which s and t are neighbours is
\* recorded in path_cir, and every switch of that cycle that is off the path
\* is sent a forward and a backward return-stitch FlowMod in the same call.
C24_UsedCycleRecorded ==
  (IsInstall /\ ret = NoErr) =>
    \A k \in Sent("GroupMod") :
      (OnPath(sent[k].dp) /\ ~Bounces(k)) =>
        \A t \in NeighbourVia(sent[k].dp, sent[k].buckets[2].out_port) :
          \E j \in 1..Len(call.path_cir) :
            /\ AdjacentIn(call.path_cir[j], sent[k].dp, t)
            /\ \A w \in OffPathOf(call.path_cir[j]) : Stitched(w)

\* ---- path_cir and cir_dir
\* the 1-based positions i of the path whose edge (path[i], path[i+1]) lies
\* on the cycle c
CoveredEdges(c) ==
  {i \in 1..(Len(ThePath) - 1) : {ThePath[i], ThePath[i + 1]} \subseteq SetOf(c)}
\* the direction the try/except idiom computes for c at path[i]
Computed(c, i) ==
  away_from(c, IndexOf(ThePath[i], c), ThePath[i + 1], ThePath[i + 1]).dir

\* C25: when install_flow gets to the off-path stitch, path_cir and cir_dir
\* have the same length, no cycle is in path_cir twice, and every cir_dir[j]
\* is -1 or +1 and is the direction computed for path_cir[j] at an edge of
\* the path that lies on it.
C25_ListsInStep ==
  (IsInstall /\ ThePath # None /\ ret = NoErr) =>
    /\ Len(call.path_cir) = Len(call.cir_dir)
    /\ \A j1, j2 \in 1..Len(call.path_cir) :
         j1 # j2 => call.path_cir[j1] # call.path_cir[j2]
    /\ \A j \in 1..Len(call.cir_dir) :
         /\ call.cir_dir[j] \in {-1, 1}
         /\ \E i \in CoveredEdges(call.path_cir[j]) :
              call.cir_dir[j] = Computed(call.path_cir[j], i)

\* a call that met a cycle again after recording it, recorded two cycles
\* with different directions, and stitched a switch off the path
C25_Witness ==
  /\ IsInstall /\ ret = NoErr
  /\ Len(call.path_cir) = 2 /\ call.cir_dir[1] # call.cir_dir[2]
  /\ \E j \in 1..2 : Cardinality(CoveredEdges(call.path_cir[j])) >= 2
  /\ \E k \in Sent("FlowMod") : ~OnPath(sent[k].dp)

\* the FF groups of s that protect its port towards t and have a backup port
Protecting(s, t) ==
  {k \in Sent("GroupMod") :
     /\ sent[k].dp = s /\ ~Bounces(k)
     /\ sent[k].buckets[1].out_port = FacingPort(s, t)}

\* C26: for an edge (path[i], path[i+1]) lying on a recorded cycle C, with
\* path[i] at position p and path[i+1] at position q of C (length k), the
\* direction recorded for C is +1 if q = (p+1) mod k and -1 otherwise, and a
\* backup next-hop taken from C at path[i] is C[(p - d) mod k].
C26_DirectionAndNextHop ==
  (IsInstall /\ ThePath # None /\ ret = NoErr) =>
    \A j \in 1..Len(call.path_cir) :
      LET c == call.path_cir[j]
          d == call.cir_dir[j]
      IN \A i \in CoveredEdges(c) :
           LET p == IndexOf(ThePath[i], c)
               q == IndexOf(ThePath[i + 1], c)
           IN /\ d = IF q = (p + 1) % Len(c) THEN 1 ELSE -1
              /\ \A k \in Protecting(ThePath[i], ThePath[i + 1]) :
                   \A t \in NeighbourVia(ThePath[i],
                                         sent[k].buckets[2].out_port) :
                     AdjacentIn(c, ThePath[i], t) => t = Around(c, p, 0 - d)


\* the GroupMods sent to the same switch as message k, ahead of it, that add
\* the group message k names; every GroupMod of the program is
\* OFPGroupMod(OFPGC_ADD, OFPGT_FF, ...)
AddedBefore(k) ==
  {j \in Sent("GroupMod") : /\ j < k
                            /\ sent[j].dp = sent[k].dp
                            /\ sent[j].group_id = sent[k].group_id}

\* C27: within the handling of one packet-in, every FlowMod whose action is
\* OFPActionGroup(g) follows, in the order of emission, a GroupMod that adds
\* group g at the same switch; no FlowMod names a group not yet added there.
C27_GroupAddedBeforeUse ==
  \A k \in ToGroup : AddedBefore(k) # {}

\* a packet-in whose handling named both group ids, at more than one switch
C27_Witness ==
  /\ call.op = "packet_in_ipv4"
  /\ \E k \in ToGroup : sent[k].group_id = gid
  /\ \E k \in ToGroup : sent[k].group_id = gid + 1
  /\ \E k, l \in ToGroup : sent[k].dp # sent[l].dp
  /\ \A k \in ToGroup : AddedBefore(k) # {}


\* the packet-ins handled before the one in progress
Earlier == 1..(Len(gid_log) - 1)

\* C28: over any sequence of packet-ins, no switch receives two GroupMods
\* with the same group id, neither within one install_flow call nor across
\* calls (a GroupMod never carries an id that the handling of an earlier
\* packet-in used, at whatever switch), and no GroupMod carries group id 0.
C28_GroupIdNeverReused ==
  IsIPv4 =>
    /\ \A j, k \in Sent("GroupMod") :
         (j # k /\ sent[j].dp = sent[k].dp) =>
            sent[j].group_id # sent[k].group_id
    /\ \A k \in Sent("GroupMod") :
         /\ sent[k].group_id # 0
         /\ \A n \in Earlier : sent[k].group_id \notin gid_log[n].used

\* the second packet-in adds two groups at one switch, after a first one
\* whose messages used both of its ids
C28_Witness ==
  /\ IsIPv4 /\ Len(gid_log) = 2
  /\ Cardinality(gid_log[1].used) = 2
  /\ \E j, k \in Sent("GroupMod") : j # k /\ sent[j].dp = sent[k].dp

\* install_flow run again on the state's view and flow tuple, with paths
\* holding the primary path alone
PrimaryAlone ==
  install_flow(DOMAIN datapaths, link_to_port, cir_list, access_table,
               <<ThePath>>, call.fi, call.buffer_id, RawFrame, gid)
HasBackup == Programmed /\ Len(call.paths) = 2

\* C29: the messages install_flow emits depend on the primary path only:
\* with the catalogue, the port maps, the flow tuple and gid fixed, a call
\* whose paths holds the primary and a backup emits the very sequence of
\* messages, and ends the same way, as the call with the primary alone.
C29_BackupIgnored ==
  HasBackup => /\ sent = PrimaryAlone.msgs
               /\ ret = PrimaryAlone.err

\* a handling whose paths held a longer primary and a backup that leaves
\* from the first switch another way, and that installed groups
C29_Witness ==
  /\ HasBackup /\ ret = NoErr
  /\ Len(ThePath) >= 3 /\ call.paths[2][2] # ThePath[2]
  /\ Sent("GroupMod") # {}
  /\ sent = PrimaryAlone.msgs


\* ===================================================================
\* SpecGid: one IPv4 packet-in whose handling sends its messages one at a
\* time and may wait in each send, while the counter is raised on behalf
\* of other IPv4 packet-ins
\* ===================================================================
InitGid ==
  /\ graph \in Graphs
  /\ link_to_port = LinksOf(graph)
  /\ cir_list = CyclesOf(graph)
  /\ \E s1, s2 \in Sw : access_table = HostsAt(s1, s2)
  /\ datapaths = AllSessions
  /\ gid = 0 /\ gid_log = <<>> /\ last_main = Sw /\ reported = NoReports
  /\ weight = WEIGHT_MODEL(CONF_weight)
  /\ sent = <<>>
  /\ call = [op |-> "init", paths |-> <<>>, fi |-> <<>>, bumps |-> <<>>]
  /\ ret = NoErr

Handling == call.op = "handling"
Own == gid_log[1].gid

\* the call of line 817 as it runs given the increments seen so far
Run ==
  install_flow_interleaved(DOMAIN datapaths, link_to_port, cir_list,
                           access_table, call.paths, call.fi, OFP_NO_BUFFER,
                           RawFrame, Own, call.bumps)

\* _packet_in_handler, IPv4 frame, up to the call of install_flow: line 815
\* raises the counter
PacketInBegins ==
  /\ call.op = "init"
  /\ \E path \in PathsOf(graph, HostSw(access_table, SrcIp),
                          HostSw(access_table, DstIp)) :
       /\ gid' = next_gid(gid)
       /\ gid_log' = <<[gid |-> next_gid(gid), used |-> {}]>>
       /\ call' = [op |-> "handling", paths |-> <<path>>,
                   fi |-> <<EthTypeIp, SrcIp, DstIp, HostPort(SrcIp)>>,
                   bumps |-> <<>>]
       /\ UNCHANGED <<graph, link_to_port, cir_list, access_table, datapaths,
                      last_main, reported, weight, sent, ret>>

\* install_flow goes on to its next datapath.send_msg (lines 112, 316)
SendMsg ==
  /\ Handling
  /\ LET msgs == Run.msgs
     IN /\ Len(sent) < Len(msgs)
        /\ sent' = Append(sent, msgs[Len(sent) + 1])
  /\ UNCHANGED <<graph, link_to_port, cir_list, access_table, datapaths, gid,
                 gid_log, last_main, reported, weight, call, ret>>

\* line 815 on behalf of another IPv4 packet-in, while this handling waits
\* in the send of its latest message
OtherPacketIn ==
  /\ Handling /\ Len(sent) >= 1 /\ Len(gid_log) <= MaxOther
  /\ gid' = next_gid(gid)
  /\ gid_log' = Append(gid_log, [gid |-> next_gid(gid), used |-> {}])
  /\ call' = [call EXCEPT !.bumps = Append(@, Len(sent))]
  /\ UNCHANGED <<graph, link_to_port, cir_list, access_table, datapaths,
                 last_main, reported, weight, sent, ret>>

\* install_flow returns or raises
Returns ==
  /\ Handling
  /\ LET r == Run
     IN /\ Len(sent) = Len(r.msgs)
        /\ ret' = r.err
  /\ call' = [call EXCEPT !.op = "returned"]
  /\ UNCHANGED <<graph, link_to_port, cir_list, access_table, datapaths, gid,
                 gid_log, last_main, reported, weight, sent>>

NextGid == PacketInBegins \/ SendMsg \/ OtherPacketIn \/ Returns
SpecGid == InitGid /\ [][NextGid]_vars

InitSession ==
  /\ graph = EmptyGraph /\ link_to_port = NoLinks /\ cir_list = <<>>
  /\ access_table = NoHosts
  /\ datapaths = NoSessions /\ gid = 0 /\ gid_log = <<>> /\ last_main = {}
  /\ reported = [k \in (1..NumDp) \X (1..NumSessions) |-> ""]
  /\ weight = WEIGHT_MODEL(CONF_weight)
  /\ sent = <<>> /\ call = IdleCall /\ ret = NoErr

\* _state_change_handler with ev.datapath an object of its own: id is
\* datapath.id and session tells the objects of one id apart
state_change_handler_of(dps, id, session, state) ==
  IF state = MAIN_DISPATCHER
  THEN (IF id \notin DOMAIN dps
        THEN [d \in DOMAIN dps \cup {id} |->
                IF d = id THEN session ELSE dps[d]]
        ELSE dps)
  ELSE (IF id \in DOMAIN dps
        THEN [d \in DOMAIN dps \ {id} |-> dps[d]]
        ELSE dps)

\* EventOFPStateChange of one session, handled to the end
StateChangeOf ==
  \E id \in 1..NumDp, session \in 1..NumSessions :
  \E state \in {MAIN_DISPATCHER, DEAD_DISPATCHER} :
    /\ reported[<<id, session>>] # DEAD_DISPATCHER
    /\ reported[<<id, session>>] # state
    /\ datapaths' = state_change_handler_of(datapaths, id, session, state)
    /\ reported' = [reported EXCEPT ![<<id, session>>] = state]
    /\ last_main' = IF state = MAIN_DISPATCHER THEN last_main \cup {id}
                    ELSE last_main \ {id}
    /\ call' = [IdleCall EXCEPT !.op = "state_change", !.dpid = id,
                                !.arg = state]
    /\ UNCHANGED <<graph, link_to_port, cir_list, access_table, gid, gid_log,
                   weight, sent, ret>>

NextSession == StateChangeOf
SpecSession == InitSession /\ [][NextSession]_vars

\* the sessions of dpid id that reported MAIN_DISPATCHER and not yet
\* DEAD_DISPATCHER
Live(id) ==
  {session \in 1..NumSessions : reported[<<id, session>>] = MAIN_DISPATCHER}

\* C31: whenever a dpid is in the registry, the session stored under it is
\* one that reported MAIN and not yet DEAD, and as long as a dpid has such
\* a session the registry holds an entry for it: the DEAD event of one
\* session never leaves a live session of the same dpid without its entry.
C31_RegistryHoldsLiveSession ==
  \A id \in 1..NumDp :
    /\ id \in DOMAIN datapaths => datapaths[id] \in Live(id)
    /\ Live(id) # {} => id \in DOMAIN datapaths

====
